---- MODULE Spec2Model ----
(***************************************************************************)
(* A model of the two programs of the repository:                          *)
(*   utility/md5_checker.cpp  - main, search_md5_containing and            *)
(*                              generate_string;                           *)
(*   library/containers.cpp   - the Modifiers block of vector_usage.       *)
(* Bytes and characters are their numeric codes (unsigned char, ASCII).    *)
(* 64-bit values (unsigned long, size_t) are four 16-bit limbs, least      *)
(* significant first, so that they keep their width.                       *)
(***************************************************************************)
EXTENDS Integers, Sequences, FiniteSets, TLC

VARIABLES pc, argc, argv1, target, ulimit, capacity, patternBuf, patternSize,
          i, k, tmp, md5, idx, line, marks, matches, generated, hashed,
          vpc, v, vcap, vtmp, vtmpcap, v_str

md5vars == <<pc, argc, argv1, target, ulimit, capacity, patternBuf, patternSize,
             i, k, tmp, md5, idx, line, marks, matches, generated, hashed>>
vecvars == <<vpc, v, vcap, vtmp, vtmpcap, v_str>>
vars == <<md5vars, vecvars>>

(***************************************************************************)
(* Bounds of the model.                                                    *)
(***************************************************************************)
\* iterations of the search loop explored under Spec
MaxIter == 2
\* blocks of ProgressEvery iterations explored under SpecProgress
MaxProgressBlocks == 2
\* iterations explored before and after the end of each block
ProgressWindow == 2

(***************************************************************************)
(* Fixed-width integers.                                                   *)
(***************************************************************************)
LimbBase == 65536
IntMax == 2147483647

Limb == 0 .. (LimbBase - 1)

U64(n) == <<n % LimbBase, n \div LimbBase, 0, 0>>

ULongMax == <<LimbBase - 1, LimbBase - 1, LimbBase - 1, LimbBase - 1>>

\* a < b for two 64-bit values
U64Less(a, b) ==
    \E j \in 1..4 : /\ a[j] < b[j]
                    /\ \A h \in (j+1)..4 : a[h] = b[h]

\* a * m + d for m, d up to 10000, with the carry out of bit 63
U64MulAdd(a, m, d) ==
    LET t1 == a[1] * m + d
        t2 == a[2] * m + (t1 \div LimbBase)
        t3 == a[3] * m + (t2 \div LimbBase)
        t4 == a[4] * m + (t3 \div LimbBase)
    IN  [val |-> <<t1 % LimbBase, t2 % LimbBase, t3 % LimbBase, t4 % LimbBase>>,
         carry |-> t4 \div LimbBase]

\* 0 - a modulo 2^64
U64Neg(a) ==
    LET n1 == (LimbBase - a[1]) % LimbBase
        b1 == IF a[1] = 0 THEN 0 ELSE 1
        n2 == (2 * LimbBase - a[2] - b1) % LimbBase
        b2 == IF a[2] + b1 = 0 THEN 0 ELSE 1
        n3 == (2 * LimbBase - a[3] - b2) % LimbBase
        b3 == IF a[3] + b2 = 0 THEN 0 ELSE 1
        n4 == (2 * LimbBase - a[4] - b3) % LimbBase
    IN  <<n1, n2, n3, n4>>

\* unsigned long -> int: the low 32 bits (the sign bit is bit 31)
ULongToInt(a) == <<a[1], a[2]>>

IntIsNegative(n) == n[2] >= LimbBase \div 2

\* int -> size_t: sign extension to 64 bits
IntToSizeT(n) ==
    IF IntIsNegative(n) THEN <<n[1], n[2], LimbBase - 1, LimbBase - 1>>
                        ELSE <<n[1], n[2], 0, 0>>

(***************************************************************************)
(* strtoul(s, NULL, 10).                                                   *)
(***************************************************************************)
IsSpace(c) == c \in {32, 9, 10, 11, 12, 13}
IsDigit(c) == c \in 48..57

RECURSIVE SkipSpace(_)
SkipSpace(s) == IF s # <<>> /\ IsSpace(Head(s)) THEN SkipSpace(Tail(s)) ELSE s

\* the number of digits at the start of s
RECURSIVE DigitCount(_)
DigitCount(s) == IF s = <<>> \/ ~IsDigit(Head(s)) THEN 0 ELSE 1 + DigitCount(Tail(s))

Pow10(e) == IF e = 0 THEN 1 ELSE IF e = 1 THEN 10 ELSE IF e = 2 THEN 100 ELSE 1000

\* the value of the digits s[a] .. s[b], at most four of them
Digits4(s, a, b) ==
    LET term(j) == IF j <= b THEN (s[j] - 48) * Pow10(b - j) ELSE 0
    IN  term(a) + term(a + 1) + term(a + 2) + term(a + 3)

\* the value of the first n characters of s, all digits, accumulated four
\* digits at a time; ovf is TRUE once the value left the range of unsigned long
AccDigits(s, n) ==
    LET chunks == (n + 3) \div 4
        acc[h \in 0..chunks] ==
            IF h = 0 THEN [val |-> U64(0), ovf |-> FALSE]
            ELSE LET prev == acc[h - 1]
                     a == 4 * h - 3
                     b == IF 4 * h <= n THEN 4 * h ELSE n
                     m == U64MulAdd(prev.val, 10 * Pow10(b - a), Digits4(s, a, b))
                 IN  [val |-> m.val, ovf |-> prev.ovf \/ m.carry > 0]
    IN  acc[chunks]

StrToUL(s) ==
    LET t == SkipSpace(s)
        neg == t # <<>> /\ Head(t) = 45
        signed == t # <<>> /\ Head(t) \in {43, 45}
        digits == IF signed THEN Tail(t) ELSE t
        n == DigitCount(digits)
        r == AccDigits(digits, n)
    IN  IF n = 0 THEN U64(0)
        ELSE IF r.ovf THEN ULongMax
        ELSE IF neg THEN U64Neg(r.val)
        ELSE r.val

(***************************************************************************)
(* Strings.                                                                *)
(***************************************************************************)
\* n as decimal text
RECURSIVE Decimal(_)
Decimal(n) == IF n < 10 THEN <<48 + n>> ELSE Append(Decimal(n \div 10), 48 + (n % 10))

Zeros(n) == [j \in 1..n |-> 0]

\* the C string at the start of s: the bytes before its first zero byte
CStr(s) ==
    IF \E j \in 1..Len(s) : s[j] = 0
    THEN SubSeq(s, 1, (CHOOSE j \in 1..Len(s) : s[j] = 0 /\ \A h \in 1..(j-1) : s[h] # 0) - 1)
    ELSE s

\* tolower in the C locale
ToLower(c) == IF c \in 65..90 THEN c + 32 ELSE c

\* basic_string::find(p) != npos
Find(s, p) ==
    \E o \in 0..(Len(s) - Len(p)) : \A j \in 1..Len(p) : s[o + j] = p[j]

(***************************************************************************)
(* generate_string.                                                        *)
(***************************************************************************)
\* static char charset[]: 35 characters and the terminating NUL
charset == <<48, 49, 50, 51, 52, 53, 54, 55, 56, 57,
             97, 98, 99, 100, 101, 102, 103, 104,
             106, 107, 108, 109, 110, 111, 112, 113, 114, 115, 116, 117,
             118, 119, 120, 121, 122, 0>>

SizeofCharset == Len(charset)

\* rand() % sizeof(charset) - 1: the remainder is taken first, then 1 is
\* subtracted in size_t arithmetic; -1 stands for the wrapped value
\* SIZE_MAX, which addresses the byte before charset
CharsetIndex(r) == (r % SizeofCharset) - 1

\* charset[ix]; outside the array the read is undefined: ub is what it yields
CharsetAt(ix, ub) == IF ix \in 0..(SizeofCharset - 1) THEN charset[ix + 1] ELSE ub

\* the string generate_string leaves in result, for the values rs that the
\* successive calls of rand() return
generate_string(size, rs, ub) ==
    [j \in 1..size |-> CharsetAt(CharsetIndex(rs[j]), ub)]

(***************************************************************************)
(* search_md5_containing.                                                  *)
(***************************************************************************)
\* the literal "'='" that main passes as substr, with its terminating NUL
substr == <<39, 61, 39, 0>>

\* the length main passes as str_size
str_size == 10

\* strlen(substr)
StrLen(s) == Len(CStr(s))

\* the byte at s + j, for the string s with its terminating NUL: past the
\* NUL the read is undefined, g is what it yields
SubstrAt(s, j, g) == IF j < Len(s) THEN s[j + 1] ELSE g

\* pattern.capacity() after pattern.resize(n) on the empty string of
\* short-string capacity sso: unchanged while n fits, else the larger of n
\* and twice the old capacity
ResizeCapacity(sso, n) == IF n <= sso THEN sso ELSE IF n >= 2 * sso THEN n ELSE 2 * sso

\* a transform that copies the characters as they are
TransformVerbatim(s, cap, g) == [j \in 1..cap |-> SubstrAt(s, j - 1, g)]

\* std::transform(substr, substr + pattern.capacity(), pattern.begin(), tolower):
\* the bytes written from pattern.begin() on, for substr = s
Transform(s, cap, g) == [j \in 1..cap |-> ToLower(SubstrAt(s, j - 1, g))]

\* the value of pattern: the first size() bytes of its buffer
pattern == SubSeq(patternBuf, 1, patternSize)

\* md5.resize(130)
Md5BufferSize == 130

\* the length of the digest MD5() writes
MD5_DIGEST_LENGTH == 16

\* MD5(tmp.c_str(), tmp.size(), md5): the digest d overwrites the start of buf
MD5Write(buf, d) == d \o SubSeq(buf, Len(d) + 1, Len(buf))

\* i % 10'000'000ull == 0
ProgressEvery == 10000000

\* the test with the iterations counted from 0
ProgressDueFromZero(n) == (n - 1) % ProgressEvery = 0

ProgressDue(n) == n % ProgressEvery = 0

\* for (size_t i = 1; i < ulimit; ++i)
LoopStart == 1

\* the loop written with i != ulimit
LoopCondNotEqual(n, limit) == U64(n) # limit

LoopCond(n, limit) == U64Less(U64(n), limit)

\* ++k on an int: past INT_MAX the result is undefined
IncInt(n) == IF n < IntMax THEN {n + 1} ELSE {-IntMax - 1, 0, IntMax}

NoLine == [marker |-> 0, hit |-> FALSE, cand |-> <<>>, digest |-> <<>>]

(***************************************************************************)
(* The inputs explored.                                                    *)
(***************************************************************************)
Nines(n) == [j \in 1..n |-> 57]

\* argv[1]: decimal numbers small and large, and text that is no number
ArgSamples ==
    { Decimal(0), Decimal(1), Decimal(2), Decimal(3), Decimal(100),
      Decimal(214748364) \o <<56>>,                          \* 2^31
      Decimal(429496729) \o <<54>>,                          \* 2^32
      Decimal(429496729) \o <<57>>,                          \* 2^32 + 3
      Decimal(1844674407) \o Decimal(370955161) \o <<53>>,   \* 2^64 - 1
      Nines(20),                                             \* above 2^64 - 1
      <<97, 98, 99>>,                                        \* abc
      <<45, 49>>,                                            \* -1
      <<>> }

\* the command lines <<argc, argv[1]>>
CommandLines == {<<1, <<>>>>} \cup {<<2, a>> : a \in ArgSamples}

\* a run long enough to complete MaxProgressBlocks blocks of iterations
ProgressCommandLines == {<<2, Decimal(MaxProgressBlocks * ProgressEvery + 2)>>}

\* the iterations followed under Spec
Explored == 1..MaxIter

\* the iterations followed under SpecProgress: those around the end of
\* each block
ProgressExplored ==
    UNION { {n \in (b * ProgressEvery - ProgressWindow)..(b * ProgressEvery + ProgressWindow) :
                n >= LoopStart} : b \in 0..MaxProgressBlocks }

\* the values of rand()
RandSamples == {1, 36, 71}

\* the values rand() returns during one call of generate_string
RandRuns ==
    { [j \in 1..str_size |-> IF j = 1 THEN p[1] ELSE p[2]] :
        p \in {<<a, a>> : a \in RandSamples} \cup {<<36, 1>>, <<1, 36>>} }

ProgressRandRuns == {[j \in 1..str_size |-> 1], [j \in 1..str_size |-> 36]}

\* what a read outside an array yields
UBBytes == {0, 65}

ProgressUBBytes == {65}

\* the capacity of an empty basic_string<unsigned char>: the short-string
\* capacity of the library (15 in libstdc++, 22 in libc++)
Capacities == {15, 22}

\* the targets search_md5_containing is followed on under SpecPattern, each
\* with its terminating NUL: the one main passes, "Ab", the empty string,
\* and capital letters of lengths 15 and 16
TargetSamples ==
    { substr, <<65, 98, 0>>, <<0>>,
      [j \in 1..16 |-> IF j <= 15 THEN 64 + j ELSE 0],
      [j \in 1..17 |-> IF j <= 16 THEN 64 + j ELSE 0] }

PatternCommandLines == {<<1, <<>>>>, <<2, Decimal(0)>>, <<2, Decimal(3)>>}

ProgressCapacities == {15}

\* seg placed at offset off in MD5_DIGEST_LENGTH bytes of value fill
Place(fill, seg, off) ==
    [j \in 1..MD5_DIGEST_LENGTH |->
        IF j > off /\ j <= off + Len(seg) THEN seg[j - off] ELSE fill]

\* the digests MD5() returns: with and without the bytes of "'='", at the
\* start, after a first byte, at the end and cut by the end, among zero and
\* non-zero bytes
DigestSamples ==
    { Place(f, p[1], p[2]) :
        f \in {0, 97},
        p \in { <<<<>>, 0>>, <<<<39, 61, 39>>, 0>>, <<<<39, 61, 39>>, 1>>,
                <<<<39, 61, 39>>, 13>>, <<<<39, 61>>, 14>> } }

ProgressDigestSamples == {Place(97, <<>>, 0), Place(0, <<39, 61, 39>>, 1)}

(***************************************************************************)
(* md5_checker: the state machine.                                         *)
(***************************************************************************)
Md5InitWith(lines, targets) ==
    /\ pc = "main"
    /\ \E cl \in lines : argc = cl[1] /\ argv1 = cl[2]
    /\ target \in targets
    /\ ulimit = U64(0)
    /\ capacity = 0
    /\ patternBuf = <<>>
    /\ patternSize = 0
    /\ i = 0
    /\ k = 0
    /\ tmp = <<>>
    /\ md5 = <<>>
    /\ idx = <<>>
    /\ line = NoLine
    /\ marks = <<>>
    /\ matches = 0
    /\ generated = 0
    /\ hashed = 0

\* the program as main starts it: the target is the literal main passes
Md5Init(lines) == Md5InitWith(lines, {substr})

\* int ulimit = 100; if (argc > 1) ulimit = strtoul(argv[1], NULL, 10);
MainUlimit == IF argc > 1 THEN ULongToInt(StrToUL(argv1)) ELSE <<100, 0>>

\* main up to the call, and search_md5_containing up to its loop
Main(caps, garbage) ==
    /\ pc = "main"
    /\ ulimit' = IntToSizeT(MainUlimit)
    /\ \E cap \in caps, g \in garbage :
          /\ capacity' = ResizeCapacity(cap, StrLen(target))
          /\ patternSize' = StrLen(target)
          /\ patternBuf' = Transform(target, ResizeCapacity(cap, StrLen(target)), g)
    /\ md5' = Zeros(Md5BufferSize)
    /\ tmp' = <<>>
    /\ k' = 0
    /\ i' = LoopStart
    /\ pc' = "loop"
    /\ UNCHANGED <<argc, argv1, target, idx, line, marks, matches, generated, hashed>>

\* one iteration of the loop of search_md5_containing
Iterate(explored, rands, ubs, digests) ==
    /\ pc = "loop"
    /\ LoopCond(i, ulimit)
    /\ i \in explored
    /\ \E rs \in rands, ub \in ubs, d \in digests, k2 \in IncInt(k) :
          LET due == ProgressDue(i)
              cand == generate_string(str_size, rs, ub)
              buf == MD5Write(md5, d)
              hit == Find(buf, pattern)
          IN  /\ k' = IF due THEN k2 ELSE k
              /\ marks' = IF due THEN Append(marks, <<i, k2>>) ELSE marks
              /\ tmp' = cand
              /\ idx' = [j \in 1..str_size |-> CharsetIndex(rs[j])]
              /\ md5' = buf
              /\ line' = [marker |-> IF due THEN k2 ELSE 0,
                          hit |-> hit,
                          cand |-> IF hit THEN CStr(cand) ELSE <<>>,
                          digest |-> IF hit THEN CStr(buf) ELSE <<>>]
              /\ matches' = IF hit THEN matches + 1 ELSE matches
    /\ generated' = generated + 1
    /\ hashed' = hashed + 1
    /\ i' = i + 1
    /\ UNCHANGED <<pc, argc, argv1, target, ulimit, capacity, patternBuf, patternSize>>

\* the loop condition fails: search_md5_containing and main return
LoopEnd ==
    /\ pc = "loop"
    /\ ~LoopCond(i, ulimit)
    /\ pc' = "done"
    /\ UNCHANGED <<argc, argv1, target, ulimit, capacity, patternBuf, patternSize,
                   i, k, tmp, md5, idx, line, marks, matches, generated, hashed>>

(***************************************************************************)
(* containers.cpp: the Modifiers block of vector_usage.                    *)
(* A vector is the sequence of its elements and its capacity; a position   *)
(* (iterator) is the number of elements before it.                         *)
(***************************************************************************)
Max(a, b) == IF a >= b THEN a ELSE b

\* the capacities a vector of capacity cap may have once it holds n elements:
\* unchanged while n fits; else the library reallocates, to a capacity that
\* its growth policy chooses between the exact size and twice the old
\* capacity (libstdc++ and libc++ double, MSVC grows by one half)
Grow(cap, n) ==
    IF n <= cap THEN {cap}
    ELSE n .. Max(n, 2 * cap)

\* insert(pos, ...) and emplace(pos, ...): xs placed before position pos
InsertAt(s, pos, xs) == SubSeq(s, 1, pos) \o xs \o SubSeq(s, pos + 1, Len(s))

\* erase(first, last): the elements at positions first .. last-1 removed
EraseRange(s, first, last) == SubSeq(s, 1, first) \o SubSeq(s, last + 1, Len(s))

\* a resize that overwrites the elements it should keep
ResizeOverwriting(s, ct, val) == [j \in 1..ct |-> val]

\* resize(ct, val): cut to ct elements, or filled up to ct with val
Resize(s, ct, val) ==
    IF ct <= Len(s) THEN SubSeq(s, 1, ct)
    ELSE s \o [j \in 1..(ct - Len(s)) |-> val]

\* int arr[] = { 5, 6, 7 };
arr == <<5, 6, 7>>

VecInit ==
    /\ vpc = 0
    /\ v = <<1, 2, 3, 4, 5>>
    /\ vcap = 5
    /\ vtmp = <<>>
    /\ vtmpcap = 0
    /\ v_str = <<>>

\* statement n of the block leaves nv in v
VStep(n, nv) ==
    /\ vpc = n
    /\ vpc' = n + 1
    /\ v' = nv
    /\ vcap' \in Grow(vcap, Len(nv))
    /\ UNCHANGED <<vtmp, vtmpcap, v_str>>

\* statement n of the block leaves ns in v_str
VStrStep(n, ns) ==
    /\ vpc = n
    /\ vpc' = n + 1
    /\ v_str' = ns
    /\ UNCHANGED <<v, vcap, vtmp, vtmpcap>>

\* v.clear();
Clear == VStep(0, <<>>)

\* v.insert(v.begin(), 1);
Insert1 == VStep(1, InsertAt(v, 0, <<1>>))

\* v.insert(v.insert(v.begin(), 2), 3): the inner call
InsertInner == VStep(2, InsertAt(v, 0, <<2>>))

\* v.insert(v.insert(v.begin(), 2), 3): the outer call, at the position the
\* inner call returns, that of the element it inserted
InsertOuter == VStep(3, InsertAt(v, 0, <<3>>))

\* v.insert(v.begin(), 3, 4);
InsertCount == VStep(4, InsertAt(v, 0, [j \in 1..3 |-> 4]))

\* v.insert(v.end(), arr, arr + 3);
InsertRange == VStep(5, InsertAt(v, Len(v), SubSeq(arr, 1, 3)))

\* v.insert(v.end(), { 8, 9, 10 });
InsertList == VStep(6, InsertAt(v, Len(v), <<8, 9, 10>>))

\* v.emplace(v.begin(), 10);
Emplace == VStep(7, InsertAt(v, 0, <<10>>))

\* v_str.emplace(v_str.begin(), 3, 'a');
EmplaceStr == VStrStep(8, InsertAt(v_str, 0, <<[j \in 1..3 |-> 97]>>))

\* v.erase(v.begin());
Erase1 == VStep(9, EraseRange(v, 0, 1))

\* v.erase(v.begin(), v.end());
EraseAll == VStep(10, EraseRange(v, 0, Len(v)))

\* v.push_back(42);
PushBack == VStep(11, InsertAt(v, Len(v), <<42>>))

\* v_str.emplace_back("abc");
EmplaceBackStr == VStrStep(12, InsertAt(v_str, Len(v_str), <<<<97, 98, 99>>>>))

\* v.pop_back();
PopBack == VStep(13, EraseRange(v, Len(v) - 1, Len(v)))

\* v.resize(5);
Resize5 == VStep(14, Resize(v, 5, 0))

\* v.resize(10, 42);
Resize10 == VStep(15, Resize(v, 10, 42))

\* vector<int> tmp; tmp.swap(v);
Swap ==
    /\ vpc = 16
    /\ vpc' = 17
    /\ v' = vtmp
    /\ vcap' = vtmpcap
    /\ vtmp' = v
    /\ vtmpcap' = vcap
    /\ UNCHANGED v_str

(***************************************************************************)
(* The specifications.                                                     *)
(***************************************************************************)
\* md5_checker, over the sampled command lines, random values and digests,
\* its loop followed for MaxIter iterations
Init == Md5Init(CommandLines) /\ VecInit

Next ==
    \/ Main(Capacities, UBBytes) /\ UNCHANGED vecvars
    \/ Iterate(Explored, RandRuns, UBBytes, DigestSamples) /\ UNCHANGED vecvars
    \/ LoopEnd /\ UNCHANGED vecvars

Spec == Init /\ [][Next]_vars

\* the state of the loop of search_md5_containing when iteration n is about
\* to start, in a run that printed a marker at the end of each block so far:
\* one marker for each completed block, and the candidate, the digest and
\* the line of iteration n - 1
MidLoop(lines, caps, garbage, rands, ubs, digests, n) ==
    /\ pc = "loop"
    /\ target = substr
    /\ \E cl \in lines :
          /\ argc = cl[1]
          /\ argv1 = cl[2]
          /\ ulimit = IntToSizeT(ULongToInt(StrToUL(cl[2])))
    /\ \E cap \in caps, g \in garbage :
          /\ capacity = ResizeCapacity(cap, StrLen(substr))
          /\ patternSize = StrLen(substr)
          /\ patternBuf = Transform(substr, ResizeCapacity(cap, StrLen(substr)), g)
    /\ i = n
    /\ k = (n - 1) \div ProgressEvery
    /\ marks = [j \in 1..((n - 1) \div ProgressEvery) |-> <<j * ProgressEvery, j>>]
    /\ \E rs \in rands, ub \in ubs, d \in digests :
          LET cand == generate_string(str_size, rs, ub)
              buf == MD5Write(Zeros(Md5BufferSize), d)
              hit == Find(buf, SubSeq(substr, 1, StrLen(substr)))
          IN  /\ tmp = cand
              /\ idx = [j \in 1..str_size |-> CharsetIndex(rs[j])]
              /\ md5 = buf
              /\ line = [marker |-> 0,
                         hit |-> hit,
                         cand |-> IF hit THEN CStr(cand) ELSE <<>>,
                         digest |-> IF hit THEN CStr(buf) ELSE <<>>]
              /\ matches = IF hit THEN 1 ELSE 0
    /\ generated = n - 1
    /\ hashed = n - 1

\* md5_checker on a long run, followed around the end of each block of
\* ProgressEvery iterations: from its start, and from the state of the loop
\* ProgressWindow iterations before the end of each block
InitProgress ==
    /\ \/ Md5Init(ProgressCommandLines)
       \/ \E b \in 1..MaxProgressBlocks :
             MidLoop(ProgressCommandLines, ProgressCapacities, ProgressUBBytes,
                     ProgressRandRuns, ProgressUBBytes, ProgressDigestSamples,
                     b * ProgressEvery - ProgressWindow)
    /\ VecInit

NextProgress ==
    \/ Main(ProgressCapacities, ProgressUBBytes) /\ UNCHANGED vecvars
    \/ Iterate(ProgressExplored, ProgressRandRuns, ProgressUBBytes,
               ProgressDigestSamples) /\ UNCHANGED vecvars
    \/ LoopEnd /\ UNCHANGED vecvars

SpecProgress == InitProgress /\ [][NextProgress]_vars

\* search_md5_containing on the sampled targets, its loop followed for
\* MaxIter iterations
InitPattern == Md5InitWith(PatternCommandLines, TargetSamples) /\ VecInit

NextPattern ==
    \/ Main(Capacities, UBBytes) /\ UNCHANGED vecvars
    \/ Iterate(Explored, ProgressRandRuns, ProgressUBBytes,
               ProgressDigestSamples) /\ UNCHANGED vecvars
    \/ LoopEnd /\ UNCHANGED vecvars

SpecPattern == InitPattern /\ [][NextPattern]_vars

\* the Modifiers block of vector_usage
InitVector == Md5Init({<<1, <<>>>>}) /\ VecInit

NextVector ==
    \/ Clear /\ UNCHANGED md5vars
    \/ Insert1 /\ UNCHANGED md5vars
    \/ InsertInner /\ UNCHANGED md5vars
    \/ InsertOuter /\ UNCHANGED md5vars
    \/ InsertCount /\ UNCHANGED md5vars
    \/ InsertRange /\ UNCHANGED md5vars
    \/ InsertList /\ UNCHANGED md5vars
    \/ Emplace /\ UNCHANGED md5vars
    \/ EmplaceStr /\ UNCHANGED md5vars
    \/ Erase1 /\ UNCHANGED md5vars
    \/ EraseAll /\ UNCHANGED md5vars
    \/ PushBack /\ UNCHANGED md5vars
    \/ EmplaceBackStr /\ UNCHANGED md5vars
    \/ PopBack /\ UNCHANGED md5vars
    \/ Resize5 /\ UNCHANGED md5vars
    \/ Resize10 /\ UNCHANGED md5vars
    \/ Swap /\ UNCHANGED md5vars

SpecVector == InitVector /\ [][NextVector]_vars

(***************************************************************************)
(* The properties.                                                         *)
(***************************************************************************)
\* the 35 characters of the declared character set
CharsetChars == {charset[h] : h \in 1..(SizeofCharset - 1)}

\* s is the text of an unsigned integer in the range of unsigned long
IsUnsignedText(s) ==
    /\ s # <<>>
    /\ \A j \in 1..Len(s) : IsDigit(s[j])
    /\ ~AccDigits(s, Len(s)).ovf

IsHexChar(c) == c \in (48..57) \cup (97..102)

\* the digest of the last candidate: the bytes MD5() wrote
Digest == SubSeq(md5, 1, MD5_DIGEST_LENGTH)

\* C1: every character of a generated candidate is one of the 35 characters
\* of the character set, read at an index within 0..34.
C1_CandidateInCharset ==
    generated > 0 =>
        \A j \in 1..Len(tmp) : idx[j] \in 0..34 /\ tmp[j] \in CharsetChars

\* C2: the iteration bound is 100 when no argument is given and when the
\* argument is not a valid unsigned integer.
C2_DefaultBound ==
    (pc # "main" /\ (argc = 1 \/ ~IsUnsignedText(argv1))) => ulimit = U64(100)

\* C3: for a bound n >= 1 the loop has performed exactly n iterations when
\* it stops.
C3_ExactlyBoundIterations ==
    (pc = "done" /\ ulimit # U64(0)) => U64(generated) = ulimit

\* C4: after m completed iterations exactly floor(m / 10,000,000) progress
\* markers have been emitted; the j-th marker was emitted at iteration
\* 10,000,000 * j and carries the number j; an iteration emits a marker
\* exactly when its number is a multiple of 10,000,000.
C4_ProgressMarkers ==
    pc # "main" =>
        /\ generated = i - 1
        /\ Len(marks) = generated \div ProgressEvery
        /\ k = Len(marks)
        /\ \A j \in 1..Len(marks) : marks[j] = <<j * ProgressEvery, j>>
        /\ (line.marker # 0) <=> (generated > 0 /\ generated % ProgressEvery = 0)
        /\ line.marker # 0 => line.marker = generated \div ProgressEvery

\* C4, witness: the second marker has been emitted, at iteration 20,000,000,
\* and the run went on past it.
C4_Witness ==
    /\ Len(marks) = 2
    /\ marks[2] = <<2 * ProgressEvery, 2>>
    /\ generated > 2 * ProgressEvery

\* C5: with iteration bound 0 the loop ends without an iteration: no
\* candidate generated, no hash computed, no marker and no match line.
C5_ZeroBound ==
    (pc # "main" /\ ulimit = U64(0)) =>
        /\ ~LoopCond(i, ulimit)
        /\ i = LoopStart
        /\ generated = 0
        /\ hashed = 0
        /\ marks = <<>>
        /\ matches = 0
        /\ line = NoLine

\* C5, witness: a run with bound 0 has ended.
C5_Witness == pc = "done" /\ argc = 2 /\ ulimit = U64(0) /\ generated = 0

\* C6: an iteration emits a match line exactly when the lowercase pattern
\* occurs in the digest of its candidate, and the line carries exactly that
\* candidate and that digest.
C6_MatchLine ==
    generated > 0 =>
        /\ line.hit <=> Find(Digest, pattern)
        /\ line.hit => (line.cand = tmp /\ line.digest = Digest)

\* C7: with iteration bound 100 and a pattern that has a character outside
\* 0-9a-f, no match line is emitted in the whole run.
C7_NoMatchOutsideHex ==
    (/\ pc # "main"
     /\ ulimit = U64(100)
     /\ \E j \in 1..Len(pattern) : ~IsHexChar(pattern[j])) => matches = 0

\* C8: for every unsigned integer given as the argument, the bound that
\* search_md5_containing receives equals that integer.
C8_BoundPreserved ==
    (pc # "main" /\ argc > 1 /\ IsUnsignedText(argv1)) => ulimit = StrToUL(argv1)

\* C9: the text of the digest that is searched, and that a match line
\* carries, has in every iteration the length the hash algorithm defines.
C9_DigestTextLength ==
    generated > 0 =>
        /\ Len(md5) = MD5_DIGEST_LENGTH
        /\ line.hit => Len(line.digest) = MD5_DIGEST_LENGTH

\* the contents of v that the comments of the Modifiers block give, by the
\* number of statements executed
ExpectedV ==
    << <<>>,
       <<1>>,
       <<2, 1>>,
       <<3, 2, 1>>,
       <<4, 4, 4, 3, 2, 1>>,
       <<4, 4, 4, 3, 2, 1, 5, 6, 7>>,
       <<4, 4, 4, 3, 2, 1, 5, 6, 7, 8, 9, 10>>,
       <<10, 4, 4, 4, 3, 2, 1, 5, 6, 7, 8, 9, 10>>,
       <<10, 4, 4, 4, 3, 2, 1, 5, 6, 7, 8, 9, 10>>,
       <<4, 4, 4, 3, 2, 1, 5, 6, 7, 8, 9, 10>>,
       <<>>,
       <<42>>,
       <<42>>,
       <<>>,
       <<0, 0, 0, 0, 0>>,
       <<0, 0, 0, 0, 0, 42, 42, 42, 42, 42>>,
       <<>> >>

\* C10: in the Modifiers block, starting from [1,2,3,4,5], v holds after
\* each statement the sequence its comment gives, and after the swap tmp
\* holds [0,0,0,0,0,42,42,42,42,42].
C10_VectorModifiers ==
    /\ vpc = 0 => v = <<1, 2, 3, 4, 5>>
    /\ vpc > 0 => v = ExpectedV[vpc]
    /\ vpc = 17 => vtmp = <<0, 0, 0, 0, 0, 42, 42, 42, 42, 42>>
    /\ vpc < 17 => vtmp = <<>>
    /\ vcap >= Len(v)

\* C10, witness: the block has run to its end, through the swap.
C10_Witness == vpc = 17 /\ Len(vtmp) = 10 /\ v = <<>>

\* the target without its terminating NUL, every character in lowercase
LoweredTarget == [j \in 1..StrLen(target) |-> ToLower(target[j])]

\* C11: from before the first iteration until the loop has ended, the
\* pattern is the target with every character converted to lowercase, of
\* the target's length, and no step of the loop changes it.
C11_PatternNormalized ==
    /\ [](pc # "main" => (patternSize = StrLen(target) /\ pattern = LoweredTarget))
    /\ [][pc = "loop" => (pattern' = pattern /\ patternSize' = patternSize)]_vars

\* C11, witness: the loop has ended after an iteration, on a target with a
\* capital letter, which the pattern holds in lowercase.
C11_Witness ==
    /\ pc = "done"
    /\ generated > 0
    /\ pattern = LoweredTarget
    /\ pattern # SubSeq(target, 1, StrLen(target))

\* C12: the normalization reads only the strlen(substr) characters of the
\* target and writes only the positions 0 .. size-1 of the pattern: the
\* number of characters transformed equals the pattern's size.
C12_TransformWithinSize ==
    pc # "main" =>
        /\ capacity = StrLen(target)
        /\ Len(patternBuf) = patternSize

====
